---- MODULE Spec2Model ----
(***************************************************************************)
(* Graph construction of the double U-Net of                               *)
(* projects/mapalign/mapalign_multires/model_utils.py.                     *)
(*                                                                         *)
(* A tensor handle is a record of its static shape (n, h, w, c) and of the *)
(* kind of operation that produced it.  Python's None is the record None,  *)
(* an exception raised by the framework while a node is built is an Error  *)
(* record that the calling step turns into the aborted state pc = "error". *)
(* Python list indices i are positions i + 1 of the sequences below.       *)
(***************************************************************************)
EXTENDS Integers, Sequences, FiniteSets, TLC

VARIABLES args, pc, level_index, levels, prev_level_output, output_level_0,
          level_0_resolution, branch_image_levels, branch_poly_map_levels,
          common_part_levels, disp_levels, seg_levels, level_0_disp_pred,
          stacked_disp_preds, level_0_seg_pred_logit, stacked_seg_pred_logits,
          level_0_seg_pred, keep_prob, result, error, crops, concat_a_b

vars == <<args, pc, level_index, levels, prev_level_output, output_level_0,
          level_0_resolution, branch_image_levels, branch_poly_map_levels,
          common_part_levels, disp_levels, seg_levels, level_0_disp_pred,
          stacked_disp_preds, level_0_seg_pred_logit, stacked_seg_pred_logits,
          level_0_seg_pred, keep_prob, result, error, crops, concat_a_b>>

callerVars == <<branch_image_levels, branch_poly_map_levels, common_part_levels,
                disp_levels, seg_levels>>

outVars == <<level_0_disp_pred, stacked_disp_preds, level_0_seg_pred_logit,
             stacked_seg_pred_logits, level_0_seg_pred>>

predVars == <<output_level_0, level_0_resolution>>

(***************************************************************************)
(* Bounds and input sets                                                   *)
(***************************************************************************)
MaxPool == 2
MaxDepth == 3

Heights == {5, 20, 60, 256}
Widths == {60, 256}
FeatureBaseCounts == {4, 8}
LevelExtents == {1, 6, 20}

(***************************************************************************)
(* Tensor handles                                                          *)
(***************************************************************************)
None == [op |-> "None"]

Tensor(op, n, h, w, c) == [op |-> op, n |-> n, h |-> h, w |-> w, c |-> c]

Error(kind) == [op |-> "Error", kind |-> kind]

List(items) == [op |-> "list", items |-> items]

IsError(t) == t.op = "Error"

IsTensor(t) == t.op \notin {"None", "Error", "list"}

RECURSIVE Pow2(_)
Pow2(k) == IF k <= 0 THEN 1 ELSE 2 * Pow2(k - 1)

(***************************************************************************)
(* Framework operators: static shape inference of the nodes the module     *)
(* builds.                                                                 *)
(***************************************************************************)
complete_conv2d(input, output_channels, padding) ==
    IF IsError(input) THEN input
    ELSE IF ~IsTensor(input) THEN Error("AttributeError")
    ELSE IF padding = "VALID"
         THEN IF input.h < 3 \/ input.w < 3
              THEN Error("NegativeDimension")
              ELSE Tensor("conv2d", input.n, input.h - 2, input.w - 2, output_channels)
         ELSE Tensor("conv2d", input.n, input.h, input.w, output_channels)

max_pooling2d(net) ==
    IF IsError(net) THEN net
    ELSE IF net.h < 2 \/ net.w < 2
         THEN Error("NegativeDimension")
         ELSE Tensor("max_pooling2d", net.n, net.h \div 2, net.w \div 2, net.c)

resize_bilinear(t, size) ==
    IF IsError(t) THEN t
    ELSE IF ~IsTensor(t) THEN Error("AttributeError")
    ELSE Tensor("resize_bilinear", t.n, size[1], size[2], t.c)

resize_image_with_crop_or_pad(t, target_height, target_width) ==
    IF IsError(t) THEN t
    ELSE IF ~IsTensor(t) THEN Error("AttributeError")
    ELSE Tensor("crop_or_pad", t.n, target_height, target_width, t.c)

concat(a, b) ==
    IF IsError(a) THEN a
    ELSE IF IsError(b) THEN b
    ELSE IF ~IsTensor(a) \/ ~IsTensor(b) THEN Error("AttributeError")
    ELSE IF a.n # b.n \/ a.h # b.h \/ a.w # b.w
         THEN Error("ConcatShapeMismatch")
         ELSE Tensor("concat", a.n, a.h, a.w, a.c + b.c)

pred_conv1x1(input, output_channels) ==
    IF IsError(input) THEN input
    ELSE IF ~IsTensor(input) THEN Error("AttributeError")
    ELSE Tensor("pred_conv1x1", input.n, input.h, input.w, output_channels)

SameShape(a, b) == a.n = b.n /\ a.h = b.h /\ a.w = b.w /\ a.c = b.c

stack(values) ==
    IF values = <<>> THEN Error("IndexError")
    ELSE IF \E i \in 1..Len(values) : ~SameShape(values[i], values[1])
         THEN Error("StackShapeMismatch")
         ELSE [op |-> "stack", n |-> values[1].n, l |-> Len(values),
               h |-> values[1].h, w |-> values[1].w, c |-> values[1].c]

sigmoid(t) ==
    IF IsError(t) THEN t
    ELSE IF ~IsTensor(t) THEN Error("AttributeError")
    ELSE Tensor("sigmoid", t.n, t.h, t.w, t.c)

(***************************************************************************)
(* Blocks of the module                                                    *)
(***************************************************************************)
RECURSIVE ConvLoop(_, _, _)
ConvLoop(net, n_filters, i) ==
    IF i > Len(n_filters) THEN net
    ELSE ConvLoop(complete_conv2d(net, n_filters[i], "VALID"), n_filters, i + 1)

\* The convolutions padded ("SAME") instead of "VALID".
RECURSIVE ConvLoopSame(_, _, _)
ConvLoopSame(net, n_filters, i) ==
    IF i > Len(n_filters) THEN net
    ELSE ConvLoopSame(complete_conv2d(net, n_filters[i], "SAME"), n_filters, i + 1)

conv_conv_pool_same(input_, n_filters, pool) ==
    LET net == ConvLoopSame(input_, n_filters, 1)
    IN  IF pool = FALSE
        THEN <<net, None>>
        ELSE <<net, max_pooling2d(net)>>

conv_conv_pool(input_, n_filters, pool) ==
    LET net == ConvLoop(input_, n_filters, 1)
    IN  IF pool = FALSE
        THEN <<net, None>>
        ELSE <<net, max_pooling2d(net)>>

upsample_crop_concat(to_upsample, input_to_crop) ==
    IF IsError(to_upsample) THEN to_upsample
    ELSE IF ~IsTensor(to_upsample) \/ ~IsTensor(input_to_crop) THEN Error("AttributeError")
    ELSE
    LET target_C == input_to_crop.c
        target_H == to_upsample.h * 2
        target_W == to_upsample.w * 2
        upsample == complete_conv2d(resize_bilinear(to_upsample, <<target_H, target_W>>),
                                    target_C, "SAME")
        crop == resize_image_with_crop_or_pad(input_to_crop, target_H, target_W)
    IN  concat(upsample, crop)

upsample_crop(input, resolution, factor) ==
    IF IsError(input) THEN input
    ELSE
    LET up_size == <<input.h * factor[1], input.w * factor[2]>>
        input_upsampled == resize_bilinear(input, up_size)
    IN  resize_image_with_crop_or_pad(input_upsampled, resolution[1], resolution[2])

\* The record appended to crops at each resize_image_with_crop_or_pad call:
\* the extent of the tensor handed in and the extent asked for.
CropRecord(name, level, src, target_height, target_width) ==
    [name |-> name, level |-> level, src_h |-> src.h, src_w |-> src.w,
     target_h |-> target_height, target_w |-> target_width]

(***************************************************************************)
(* build_input_branch                                                      *)
(***************************************************************************)
\* range(pool_count) instead of range(pool_count + 1).
ResLevelsOffByOne(pool_count) == pool_count

ResLevels(pool_count) == pool_count + 1

\* One pass of the loop body: the (conv, pool) pair of level res_level_index.
InputBranchLevel(input, feature_base_count, pool_count, lv, res_level_index) ==
    LET res_levels == ResLevels(pool_count)
        feature_count == feature_base_count * Pow2(res_level_index)
    IN  IF res_level_index = 0
        THEN conv_conv_pool(input, <<feature_count, feature_count>>, TRUE)
        ELSE IF res_level_index < res_levels - 1
        THEN conv_conv_pool(lv[Len(lv)][2], <<feature_count, feature_count>>, TRUE)
        ELSE IF res_level_index = res_levels - 1
        THEN conv_conv_pool(lv[Len(lv)][2], <<feature_count, feature_count>>, FALSE)
        ELSE <<None, None>>

PairError(pair) ==
    IF IsError(pair[1]) THEN pair[1].kind
    ELSE IF IsError(pair[2]) THEN pair[2].kind
    ELSE "none"

BranchInput == IF pc = "branch_image" THEN args.input_image ELSE args.input_poly_map

BranchBaseCount ==
    IF pc = "branch_image" THEN args.image_feature_base_count
    ELSE args.poly_map_feature_base_count

build_double_unet_enter ==
    /\ pc = "start"
    /\ keep_prob' = [op |-> "placeholder"]
    /\ pc' = "branch_image"
    /\ level_index' = 0
    /\ levels' = <<>>
    /\ UNCHANGED <<args, prev_level_output, predVars, callerVars, outVars,
                   result, error, crops, concat_a_b>>

build_input_branch_level ==
    /\ pc \in {"branch_image", "branch_poly_map"}
    /\ level_index < ResLevels(args.pool_count)
    /\ LET pair == InputBranchLevel(BranchInput, BranchBaseCount, args.pool_count,
                                    levels, level_index)
       IN  IF PairError(pair) # "none"
           THEN /\ pc' = "error"
                /\ error' = PairError(pair)
                /\ UNCHANGED <<levels, level_index>>
           ELSE /\ levels' = Append(levels, pair)
                /\ level_index' = level_index + 1
                /\ UNCHANGED <<pc, error>>
    /\ UNCHANGED <<args, prev_level_output, predVars, callerVars, outVars,
                   keep_prob, result, crops, concat_a_b>>

build_input_branch_return ==
    /\ pc \in {"branch_image", "branch_poly_map"}
    /\ level_index >= ResLevels(args.pool_count)
    /\ IF pc = "branch_image"
       THEN /\ branch_image_levels' = levels
            /\ pc' = "branch_poly_map"
            /\ UNCHANGED branch_poly_map_levels
       ELSE /\ branch_poly_map_levels' = levels
            /\ pc' = "common_part_assert"
            /\ UNCHANGED branch_image_levels
    /\ levels' = <<>>
    /\ level_index' = 0
    /\ UNCHANGED <<args, prev_level_output, predVars, common_part_levels,
                   disp_levels, seg_levels, outVars, keep_prob, result, error,
                   crops, concat_a_b>>

(***************************************************************************)
(* build_common_part                                                       *)
(***************************************************************************)
build_common_part_assert ==
    /\ pc = "common_part_assert"
    /\ IF Len(branch_image_levels) = Len(branch_poly_map_levels)
       THEN /\ pc' = "common_part"
            /\ UNCHANGED error
       ELSE /\ pc' = "error"
            /\ error' = "AssertionError"
    /\ levels' = <<>>
    /\ level_index' = 0
    /\ UNCHANGED <<args, prev_level_output, predVars, callerVars, outVars,
                   keep_prob, result, crops, concat_a_b>>

\* The pooled element of each pair concatenated instead of the features.
CommonConcatPooled(branch_a_levels, branch_b_levels, index) ==
    concat(branch_a_levels[index + 1][2], branch_b_levels[index + 1][2])

CommonConcat(branch_a_levels, branch_b_levels, index) ==
    concat(branch_a_levels[index + 1][1], branch_b_levels[index + 1][1])

\* The feature count not doubled from level to level.
CommonLevelNoDoubling(branch_a_levels, branch_b_levels, feature_base_count, index) ==
    conv_conv_pool(concat(branch_a_levels[index + 1][1], branch_b_levels[index + 1][1]),
                   <<feature_base_count, feature_base_count>>, FALSE)[1]

CommonLevel(branch_a_levels, branch_b_levels, feature_base_count, index) ==
    LET feature_count == feature_base_count * Pow2(index)
    IN  conv_conv_pool(CommonConcat(branch_a_levels, branch_b_levels, index),
                       <<feature_count, feature_count>>, FALSE)[1]

build_common_part_level ==
    /\ pc = "common_part"
    /\ level_index < Len(branch_image_levels)
    /\ LET concat_ab == CommonConcat(branch_image_levels, branch_poly_map_levels,
                                     level_index)
           concat_a_b_conv == CommonLevel(branch_image_levels, branch_poly_map_levels,
                                          args.common_feature_base_count, level_index)
       IN  IF IsError(concat_a_b_conv)
           THEN /\ pc' = "error"
                /\ error' = concat_a_b_conv.kind
                /\ concat_a_b' = IF IsError(concat_ab) THEN concat_a_b ELSE concat_ab
                /\ UNCHANGED <<levels, level_index>>
           ELSE /\ levels' = Append(levels, concat_a_b_conv)
                /\ level_index' = level_index + 1
                /\ concat_a_b' = concat_ab
                /\ UNCHANGED <<pc, error>>
    /\ UNCHANGED <<args, prev_level_output, predVars, callerVars, outVars,
                   keep_prob, result, crops>>

build_common_part_return ==
    /\ pc = "common_part"
    /\ level_index >= Len(branch_image_levels)
    /\ common_part_levels' = levels
    /\ pc' = "branch_disp"
    /\ levels' = <<>>
    /\ level_index' = Len(levels) - 1
    /\ prev_level_output' = None
    /\ UNCHANGED <<args, predVars, branch_image_levels, branch_poly_map_levels,
                   disp_levels, seg_levels, outVars, keep_prob, result, error,
                   crops, concat_a_b>>

(***************************************************************************)
(* build_output_branch                                                     *)
(***************************************************************************)
OutputLevel(prev, input_levels, feature_base_count, index) ==
    LET up == upsample_crop_concat(prev, input_levels[index + 1])
        feature_count == feature_base_count * Pow2(index)
    IN  conv_conv_pool(up, <<feature_count, feature_count>>, FALSE)[1]

\* The bottom of the "U" inserted as an output level too.
OutputBranchStepKeepBottom(prev, output_levels, input_levels, feature_base_count, index) ==
    IF prev = None
    THEN [prev_level_output |-> input_levels[index + 1],
          output_levels |-> <<input_levels[index + 1]>> \o output_levels]
    ELSE LET final_conv == OutputLevel(prev, input_levels, feature_base_count, index)
         IN  [prev_level_output |-> final_conv,
              output_levels |-> <<final_conv>> \o output_levels]

\* One pass of the loop body: the new prev_level_output and output_levels.
OutputBranchStep(prev, output_levels, input_levels, feature_base_count, index) ==
    IF prev = None
    THEN [prev_level_output |-> input_levels[index + 1],
          output_levels |-> output_levels]
    ELSE LET final_conv == OutputLevel(prev, input_levels, feature_base_count, index)
         IN  [prev_level_output |-> final_conv,
              output_levels |-> <<final_conv>> \o output_levels]

build_output_branch_level ==
    /\ pc \in {"branch_disp", "branch_seg"}
    /\ level_index >= 0
    /\ LET step == OutputBranchStep(prev_level_output, levels, common_part_levels,
                                    args.common_feature_base_count, level_index)
       IN  /\ crops' = IF prev_level_output = None
                       THEN crops
                       ELSE Append(crops,
                                CropRecord("up", level_index,
                                           common_part_levels[level_index + 1],
                                           prev_level_output.h * 2,
                                           prev_level_output.w * 2))
           /\ IF IsError(step.prev_level_output)
              THEN /\ pc' = "error"
                   /\ error' = step.prev_level_output.kind
                   /\ UNCHANGED <<levels, prev_level_output, level_index>>
              ELSE /\ levels' = step.output_levels
                   /\ prev_level_output' = step.prev_level_output
                   /\ level_index' = level_index - 1
                   /\ UNCHANGED <<pc, error>>
    /\ UNCHANGED <<args, predVars, callerVars, outVars, keep_prob, result,
                   concat_a_b>>

build_output_branch_return ==
    /\ pc \in {"branch_disp", "branch_seg"}
    /\ level_index < 0
    /\ IF pc = "branch_disp"
       THEN /\ disp_levels' = levels
            /\ IF args.add_seg_output
               THEN /\ pc' = "branch_seg"
                    /\ level_index' = Len(common_part_levels) - 1
                    /\ UNCHANGED seg_levels
               ELSE /\ seg_levels' = None
                    /\ pc' = "branch_disp_pred"
                    /\ level_index' = 0
       ELSE /\ seg_levels' = List(levels)
            /\ pc' = "branch_disp_pred"
            /\ level_index' = 0
            /\ UNCHANGED disp_levels
    /\ levels' = <<>>
    /\ prev_level_output' = None
    /\ output_level_0' = None
    /\ level_0_resolution' = <<>>
    /\ UNCHANGED <<args, branch_image_levels, branch_poly_map_levels,
                   common_part_levels, outVars, keep_prob, result, error, crops,
                   concat_a_b>>

(***************************************************************************)
(* build_pred_branches                                                     *)
(***************************************************************************)
PredInputLevels == IF pc = "branch_disp_pred" THEN disp_levels ELSE seg_levels.items

PredOutputChannels ==
    IF pc = "branch_disp_pred" THEN args.disp_output_channels
    ELSE args.seg_output_channels

\* The coarser predictions upsampled but not cropped to level 0's resolution.
PredLevelNoCrop(input, output_channels, resolution, index) ==
    LET pred == pred_conv1x1(input, output_channels)
    IN  IF index = 0 \/ IsError(pred)
        THEN pred
        ELSE resize_bilinear(pred, <<pred.h * Pow2(index), pred.w * Pow2(index)>>)

PredLevel(input, output_channels, resolution, index) ==
    LET pred == pred_conv1x1(input, output_channels)
        single_factor == Pow2(index)
    IN  IF index = 0
        THEN pred
        ELSE upsample_crop(pred, resolution, <<single_factor, single_factor>>)

build_pred_branches_level ==
    /\ pc \in {"branch_disp_pred", "branch_seg_pred_logit"}
    /\ level_index < Len(PredInputLevels)
    /\ LET input == PredInputLevels[level_index + 1]
           pred == PredLevel(input, PredOutputChannels, level_0_resolution, level_index)
       IN  IF IsError(pred)
           THEN /\ pc' = "error"
                /\ error' = pred.kind
                /\ UNCHANGED <<levels, level_index, predVars, crops>>
           ELSE /\ IF level_index = 0
                   THEN /\ output_level_0' = pred
                        /\ level_0_resolution' = <<pred.h, pred.w>>
                        /\ UNCHANGED crops
                   ELSE /\ crops' = Append(crops,
                               CropRecord("convert_disp_pred", level_index,
                                          resize_bilinear(input,
                                              <<input.h * Pow2(level_index),
                                                input.w * Pow2(level_index)>>),
                                          level_0_resolution[1], level_0_resolution[2]))
                        /\ UNCHANGED predVars
                /\ levels' = Append(levels, pred)
                /\ level_index' = level_index + 1
                /\ UNCHANGED <<pc, error>>
    /\ UNCHANGED <<args, prev_level_output, callerVars, outVars, keep_prob,
                   result, concat_a_b>>

build_pred_branches_return ==
    /\ pc \in {"branch_disp_pred", "branch_seg_pred_logit"}
    /\ level_index >= Len(PredInputLevels)
    /\ LET stacked_output_levels == stack(levels)
       IN  IF IsError(stacked_output_levels)
           THEN /\ pc' = "error"
                /\ error' = stacked_output_levels.kind
                /\ UNCHANGED <<outVars, levels, level_index, predVars>>
           ELSE /\ IF pc = "branch_disp_pred"
                   THEN /\ level_0_disp_pred' = output_level_0
                        /\ stacked_disp_preds' = stacked_output_levels
                        /\ IF args.add_seg_output
                           THEN /\ pc' = "branch_seg_pred_logit"
                                /\ UNCHANGED <<level_0_seg_pred_logit,
                                               stacked_seg_pred_logits, level_0_seg_pred>>
                           ELSE /\ stacked_seg_pred_logits' = None
                                /\ level_0_seg_pred' = None
                                /\ pc' = "return"
                                /\ UNCHANGED level_0_seg_pred_logit
                   ELSE /\ level_0_seg_pred_logit' = output_level_0
                        /\ stacked_seg_pred_logits' = stacked_output_levels
                        /\ level_0_seg_pred' = sigmoid(output_level_0)
                        /\ pc' = "return"
                        /\ UNCHANGED <<level_0_disp_pred, stacked_disp_preds>>
                /\ levels' = <<>>
                /\ level_index' = 0
                /\ output_level_0' = None
                /\ level_0_resolution' = <<>>
                /\ UNCHANGED error
    /\ UNCHANGED <<args, prev_level_output, callerVars, keep_prob, result,
                   crops, concat_a_b>>

build_double_unet_return ==
    /\ pc = "return"
    /\ result' = <<level_0_disp_pred, stacked_disp_preds, level_0_seg_pred,
                   stacked_seg_pred_logits, keep_prob>>
    /\ pc' = "done"
    /\ UNCHANGED <<args, level_index, levels, prev_level_output, predVars,
                   callerVars, outVars, keep_prob, error, crops, concat_a_b>>

(***************************************************************************)
(* build_double_unet called on inputs of the configured sizes              *)
(***************************************************************************)
InputTensor(h, w, c) == Tensor("input", 1, h, w, c)

Unassigned ==
    /\ level_index = 0
    /\ levels = <<>>
    /\ prev_level_output = None
    /\ output_level_0 = None
    /\ level_0_resolution = <<>>
    /\ concat_a_b = None
    /\ level_0_disp_pred = None
    /\ stacked_disp_preds = None
    /\ level_0_seg_pred_logit = None
    /\ stacked_seg_pred_logits = None
    /\ level_0_seg_pred = None
    /\ result = <<>>
    /\ error = "none"
    /\ crops = <<>>

Init ==
    /\ \E h1 \in Heights, w1 \in Widths, h2 \in Heights, w2 \in Widths,
          fi \in FeatureBaseCounts, fp \in FeatureBaseCounts, fc \in FeatureBaseCounts,
          p \in 0..MaxPool, seg \in BOOLEAN :
          args = [input_image |-> InputTensor(h1, w1, 3),
                  input_poly_map |-> InputTensor(h2, w2, 1),
                  image_feature_base_count |-> fi,
                  poly_map_feature_base_count |-> fp,
                  common_feature_base_count |-> fc,
                  pool_count |-> p,
                  disp_output_channels |-> 2,
                  add_seg_output |-> seg,
                  seg_output_channels |-> 1]
    /\ pc = "start"
    /\ keep_prob = None
    /\ branch_image_levels = <<>>
    /\ branch_poly_map_levels = <<>>
    /\ common_part_levels = <<>>
    /\ disp_levels = <<>>
    /\ seg_levels = None
    /\ Unassigned

Next ==
    \/ build_double_unet_enter
    \/ build_input_branch_level
    \/ build_input_branch_return
    \/ build_common_part_assert
    \/ build_common_part_level
    \/ build_common_part_return
    \/ build_output_branch_level
    \/ build_output_branch_return
    \/ build_pred_branches_level
    \/ build_pred_branches_return
    \/ build_double_unet_return

Spec == Init /\ [][Next]_vars

Terminated == pc \in {"done", "error"}

(***************************************************************************)
(* build_common_part called on two encoder pyramids built independently    *)
(***************************************************************************)
RECURSIVE BuildInputBranch(_, _, _, _, _)
BuildInputBranch(input, feature_base_count, pool_count, lv, res_level_index) ==
    IF res_level_index >= ResLevels(pool_count)
    THEN lv
    ELSE BuildInputBranch(input, feature_base_count, pool_count,
             Append(lv, InputBranchLevel(input, feature_base_count, pool_count,
                                         lv, res_level_index)),
             res_level_index + 1)

Built(lv) == \A i \in 1..Len(lv) : PairError(lv[i]) = "none"

ArgsOf(image, poly_map, fi, fp, fc, p, seg) ==
    [input_image |-> image,
     input_poly_map |-> poly_map,
     image_feature_base_count |-> fi,
     poly_map_feature_base_count |-> fp,
     common_feature_base_count |-> fc,
     pool_count |-> p,
     disp_output_channels |-> 2,
     add_seg_output |-> seg,
     seg_output_channels |-> 1]

InitCommon ==
    /\ \E h1 \in Heights, w1 \in Widths, h2 \in Heights, w2 \in Widths,
          fi \in FeatureBaseCounts, fp \in FeatureBaseCounts, fc \in FeatureBaseCounts,
          pa \in (-1)..MaxPool, pb \in (-1)..MaxPool :
          /\ args = ArgsOf(InputTensor(h1, w1, 3), InputTensor(h2, w2, 1),
                           fi, fp, fc, pa, TRUE)
          /\ branch_image_levels = BuildInputBranch(args.input_image, fi, pa, <<>>, 0)
          /\ branch_poly_map_levels = BuildInputBranch(args.input_poly_map, fp, pb, <<>>, 0)
    /\ Built(branch_image_levels)
    /\ Built(branch_poly_map_levels)
    /\ pc = "common_part_assert"
    /\ keep_prob = [op |-> "placeholder"]
    /\ common_part_levels = <<>>
    /\ disp_levels = <<>>
    /\ seg_levels = None
    /\ Unassigned

NextCommon ==
    \/ build_common_part_assert
    \/ build_common_part_level
    \/ build_common_part_return

SpecCommon == InitCommon /\ [][NextCommon]_vars

(***************************************************************************)
(* build_output_branch and build_pred_branches called on pyramids of any   *)
(* depth and any per-level resolution                                      *)
(***************************************************************************)
LevelTensors == {Tensor("conv2d", 1, h, w, 4) : h \in LevelExtents, w \in {6, 20}}

Pyramids == UNION {[1..d -> LevelTensors] : d \in 0..MaxDepth}

InitOutput ==
    /\ \E fc \in FeatureBaseCounts, seg \in BOOLEAN :
          args = ArgsOf(InputTensor(256, 256, 3), InputTensor(256, 256, 1),
                        8, 8, fc, 0, seg)
    /\ common_part_levels \in Pyramids
    /\ pc = "branch_disp"
    /\ keep_prob = [op |-> "placeholder"]
    /\ branch_image_levels = <<>>
    /\ branch_poly_map_levels = <<>>
    /\ disp_levels = <<>>
    /\ seg_levels = None
    /\ level_index = Len(common_part_levels) - 1
    /\ levels = <<>>
    /\ prev_level_output = None
    /\ output_level_0 = None
    /\ level_0_resolution = <<>>
    /\ concat_a_b = None
    /\ level_0_disp_pred = None
    /\ stacked_disp_preds = None
    /\ level_0_seg_pred_logit = None
    /\ stacked_seg_pred_logits = None
    /\ level_0_seg_pred = None
    /\ result = <<>>
    /\ error = "none"
    /\ crops = <<>>

NextOutput ==
    \/ build_output_branch_level
    \/ build_output_branch_return

SpecOutput == InitOutput /\ [][NextOutput]_vars

InitPred ==
    /\ \E seg \in BOOLEAN :
          /\ args = ArgsOf(InputTensor(256, 256, 3), InputTensor(256, 256, 1),
                           8, 8, 8, 0, seg)
          /\ disp_levels \in Pyramids
          /\ seg_levels = IF seg THEN List(disp_levels) ELSE None
    /\ pc = "branch_disp_pred"
    /\ keep_prob = [op |-> "placeholder"]
    /\ branch_image_levels = <<>>
    /\ branch_poly_map_levels = <<>>
    /\ common_part_levels = <<>>
    /\ Unassigned

NextPred ==
    \/ build_pred_branches_level
    \/ build_pred_branches_return
    \/ build_double_unet_return

SpecPred == InitPred /\ [][NextPred]_vars

(***************************************************************************)
(* Properties                                                              *)
(***************************************************************************)
SameInputExtent ==
    /\ args.input_image.h = args.input_poly_map.h
    /\ args.input_image.w = args.input_poly_map.w

Scenario ==
    /\ args.input_image = InputTensor(256, 256, 3)
    /\ args.input_poly_map = InputTensor(256, 256, 1)
    /\ args.pool_count = 2
    /\ args.image_feature_base_count = 8
    /\ args.poly_map_feature_base_count = 8
    /\ args.common_feature_base_count = 8

\* C1 as stated: in the 256x256, pool_count = 2, base counts 8 scenario the
\* returned level-0 displacement prediction has shape (1, h0, w0, channels)
\* and the stacked predictions have shape (1, 3, h0, w0, channels).
C1_StackedHasThreeLevels ==
    (Scenario /\ pc = "done") =>
        /\ result[1].n = 1
        /\ result[1].c = args.disp_output_channels
        /\ result[2] = [op |-> "stack", n |-> 1, l |-> 3, h |-> result[1].h,
                        w |-> result[1].w, c |-> args.disp_output_channels]

\* C1 amended: in that scenario the call returns, the level-0 displacement
\* prediction has shape (1, h0, w0, channels) and the stacked predictions
\* have shape (1, 2, h0, w0, channels): one level per decoder output,
\* pool_count of them.
C1_StackedHasTwoLevels ==
    (Scenario /\ Terminated) =>
        /\ pc = "done"
        /\ IsTensor(result[1])
        /\ result[1].n = 1
        /\ result[1].h > 0
        /\ result[1].w > 0
        /\ result[1].c = args.disp_output_channels
        /\ result[2] = [op |-> "stack", n |-> 1, l |-> 2, h |-> result[1].h,
                        w |-> result[1].w, c |-> args.disp_output_channels]

C1_Witness == Scenario /\ pc = "done" /\ result[2].l = args.pool_count

\* C2 as stated: for every pool_count >= 0 and inputs of one extent large
\* enough for every extent to stay positive, build_double_unet returns five
\* outputs whose two displacement predictions are tensors.
C2_ReturnsDisplacementTensors ==
    (Terminated /\ SameInputExtent /\ error # "NegativeDimension") =>
        /\ pc = "done"
        /\ Len(result) = 5
        /\ IsTensor(result[1])
        /\ result[2].op = "stack"

\* C3: build_input_branch appends one pair per level index, in increasing
\* order, and returns exactly pool_count + 1 pairs.
C3_InputBranchLength ==
    /\ pc \in {"branch_image", "branch_poly_map"} =>
          /\ Len(levels) = level_index
          /\ level_index <= args.pool_count + 1
          /\ \A i \in 1..Len(levels) :
                levels[i][1].c = BranchBaseCount * Pow2(i - 1)
    /\ pc \notin {"start", "branch_image", "error"} =>
          Len(branch_image_levels) = args.pool_count + 1
    /\ pc \notin {"start", "branch_image", "branch_poly_map", "error"} =>
          Len(branch_poly_map_levels) = args.pool_count + 1

C3_Witness ==
    /\ pc = "common_part_assert"
    /\ args.pool_count = 2
    /\ Len(branch_image_levels) = 3
    /\ Len(branch_poly_map_levels) = 3

\* C4 as stated: the last level of the pyramid build_input_branch returns
\* has no pooled tensor, and every earlier level has one, which is the input
\* of the next level.
C4_LastLevelNotPooled ==
    pc \notin {"start", "branch_image", "error"} =>
        /\ branch_image_levels[args.pool_count + 1][2] = None
        /\ \A i \in 1..args.pool_count :
              /\ IsTensor(branch_image_levels[i][2])
              /\ branch_image_levels[i + 1][1].h = branch_image_levels[i][2].h - 4
              /\ branch_image_levels[i + 1][1].w = branch_image_levels[i][2].w - 4

\* C5: build_common_part on pyramids of equal length L returns L fused
\* tensors, the i-th built from the features of level i of both branches;
\* on pyramids of different lengths it fails on its assertion before any
\* fused level is built.
C5_CommonPart ==
    /\ Len(branch_image_levels) # Len(branch_poly_map_levels) =>
          /\ pc \in {"common_part_assert", "error"}
          /\ pc = "error" => error = "AssertionError"
          /\ levels = <<>>
          /\ common_part_levels = <<>>
          /\ concat_a_b = None
    /\ (pc = "common_part" /\ level_index > 0) =>
          /\ concat_a_b.h = branch_image_levels[level_index][1].h
          /\ concat_a_b.w = branch_poly_map_levels[level_index][1].w
          /\ concat_a_b.c = branch_image_levels[level_index][1].c
                            + branch_poly_map_levels[level_index][1].c
    /\ pc = "branch_disp" =>
          /\ Len(branch_image_levels) = Len(branch_poly_map_levels)
          /\ Len(common_part_levels) = Len(branch_image_levels)
          /\ \A i \in 1..Len(common_part_levels) :
                /\ common_part_levels[i].h = branch_image_levels[i][1].h - 4
                /\ common_part_levels[i].h = branch_poly_map_levels[i][1].h - 4
                /\ common_part_levels[i].w = branch_image_levels[i][1].w - 4
                /\ common_part_levels[i].w = branch_poly_map_levels[i][1].w - 4

C5_Witness ==
    /\ pc = "error"
    /\ error = "AssertionError"
    /\ Len(branch_image_levels) # Len(branch_poly_map_levels)
    /\ Len(branch_image_levels) > 0
    /\ Len(branch_poly_map_levels) > 0

C5_WitnessEqualLength ==
    /\ pc = "branch_disp"
    /\ Len(branch_image_levels) = 3
    /\ Len(common_part_levels) = 3

DispReturned == pc \in {"branch_seg", "branch_disp_pred"}

\* C6 as stated: build_output_branch on a pyramid of depth D returns D - 1
\* decoder outputs, for every depth it accepts.
C6_OutputLengthDepthMinusOne ==
    DispReturned => Len(disp_levels) = Len(common_part_levels) - 1

\* C6 amended: build_output_branch on a pyramid of depth D >= 1 returns
\* D - 1 decoder outputs; on the empty pyramid, which it accepts too, it
\* returns the empty list.
C6_OutputLength ==
    /\ DispReturned =>
          Len(disp_levels) = IF Len(common_part_levels) >= 1
                             THEN Len(common_part_levels) - 1
                             ELSE 0
    /\ (pc = "branch_disp_pred" /\ args.add_seg_output) =>
          Len(seg_levels.items) = IF Len(common_part_levels) >= 1
                                  THEN Len(common_part_levels) - 1
                                  ELSE 0

C6_Witness ==
    /\ pc = "branch_disp_pred"
    /\ Len(common_part_levels) = 3
    /\ Len(disp_levels) = 2

\* C7 as stated: for any number of decoder levels of any resolutions
\* build_pred_branches returns a stacked output whose level axis is as long
\* as the list passed in and whose resolution is that of the level-0
\* prediction.
C7_StackedAtLevel0Resolution ==
    pc # "branch_disp_pred" =>
        /\ stacked_disp_preds.op = "stack"
        /\ stacked_disp_preds.l = Len(disp_levels)
        /\ IsTensor(level_0_disp_pred)
        /\ stacked_disp_preds.h = level_0_disp_pred.h
        /\ stacked_disp_preds.w = level_0_disp_pred.w

FusedChannels(fused, k) ==
    \A i \in 1..Len(fused) :
        fused[i].c = k * args.common_feature_base_count * Pow2(i - 1)

\* C8 as stated: the fused tensor of level i has
\* 2 * common_feature_base_count * 2^i channels.
C8_FusedChannelsDoubled ==
    /\ FusedChannels(common_part_levels, 2)
    /\ pc = "common_part" => FusedChannels(levels, 2)

\* C8 amended: the fused tensor of level i has
\* common_feature_base_count * 2^i channels, whatever the base feature
\* counts of the two encoders.
C8_FusedChannels ==
    /\ FusedChannels(common_part_levels, 1)
    /\ pc = "common_part" => FusedChannels(levels, 1)

C8_Witness ==
    /\ pc = "branch_disp"
    /\ Len(common_part_levels) = 3
    /\ args.image_feature_base_count # args.poly_map_feature_base_count
    /\ args.image_feature_base_count + args.poly_map_feature_base_count
          # args.common_feature_base_count

\* C9 as stated: with add_seg_output = False build_double_unet raises no
\* error, returns None for both segmentation outputs and builds neither a
\* segmentation decoder nor a segmentation prediction head.
C9_NoSegmentation ==
    (Terminated /\ ~args.add_seg_output /\ SameInputExtent
        /\ error # "NegativeDimension") =>
        /\ pc = "done"
        /\ result[3] = None
        /\ result[4] = None
        /\ seg_levels = None
        /\ level_0_seg_pred_logit = None

\* C10: in a network built from two inputs of the same height and width no
\* crop-or-pad pads: each fused tensor is strictly larger than twice the
\* previous decoder output, and each upsampled level-k prediction is at
\* least as large as level 0's resolution.
C10_CropsNeverPad ==
    SameInputExtent =>
        \A i \in 1..Len(crops) :
            /\ crops[i].name = "up" =>
                  /\ crops[i].src_h > crops[i].target_h
                  /\ crops[i].src_w > crops[i].target_w
            /\ crops[i].name = "convert_disp_pred" =>
                  /\ crops[i].src_h >= crops[i].target_h
                  /\ crops[i].src_w >= crops[i].target_w

C10_Witness ==
    /\ pc = "done"
    /\ SameInputExtent
    /\ args.pool_count = 2
    /\ \E i \in 1..Len(crops) : crops[i].name = "up"
    /\ \E i \in 1..Len(crops) : crops[i].name = "convert_disp_pred"

====
